---------------------------- MODULE Spec2Model ----------------------------
(***************************************************************************)
(* Statistics engine of the DIDComm vs OpenID4VC benchmark analysis:       *)
(*   scripts/analyze.py       (interpolated percentiles, rounded record)   *)
(*   scripts/real-analysis.py (inclusive-rank percentiles, Welch, Mann-     *)
(*                             Whitney U, Cohen's d, normal CDF, main loop) *)
(*                                                                         *)
(* Numbers.  Python floats are modelled as signed decimal fixed-point      *)
(* numbers with seven decimals (the precision of the normal_cdf            *)
(* coefficients): the integer a stands for a / Scale.  Sums, differences   *)
(* and products/quotients by small integers are exact; products, quotients *)
(* and square roots of two fixed-point numbers are truncated toward zero   *)
(* on the magnitude, so every operation commutes with negation as IEEE     *)
(* arithmetic does.  All intermediate values stay below 2^31.              *)
(*                                                                         *)
(* The optional scipy/numpy branches (HAS_SCIPY) call external libraries   *)
(* and are not modelled: the model is the pure-Python fallback.            *)
(***************************************************************************)
EXTENDS Integers, Sequences, FiniteSets, TLC

\* ------------------------------------------------------------------------
\* Fixed-point arithmetic
\* ------------------------------------------------------------------------

Scale == 10 ^ 7

Limb == 10 ^ 4

Abs(a) == IF a < 0 THEN -a ELSE a

Sgn(a) == IF a < 0 THEN -1 ELSE IF a > 0 THEN 1 ELSE 0

Min(a, b) == IF a <= b THEN a ELSE b

Max(a, b) == IF a >= b THEN a ELSE b

\* Exact product of two magnitudes a, b >= 0 as <<hi, lo>> with
\* a * b = hi * Scale + lo and 0 <= lo < Scale, computed limb by limb so
\* that no intermediate value leaves the 32-bit range.
MulParts(a, b) ==
    LET a1 == a \div Limb
        a0 == a % Limb
        b1 == b \div Limb
        b0 == b % Limb
        mid == a1 * b0 + a0 * b1
        mq == mid \div 1000
        mr == mid % 1000
        low == mr * Limb + a0 * b0
    IN  <<a1 * b1 * 10 + mq + (low \div Scale), low % Scale>>

\* Float product a * b.
MulFix(a, b) == Sgn(a) * Sgn(b) * MulParts(Abs(a), Abs(b))[1]

\* Long division: the next `digits` decimal digits of r / b appended to q.
RECURSIVE DivDigits(_, _, _, _)
DivDigits(q, r, b, digits) ==
    IF digits = 0 THEN q
    ELSE DivDigits(q * 10 + ((r * 10) \div b), (r * 10) % b, b, digits - 1)

\* Float quotient a / b for b # 0 (the callers raise ZeroDivisionError first).
DivFix(a, b) ==
    LET m == Abs(a)
        d == Abs(b)
    IN  Sgn(a) * Sgn(b) * DivDigits(m \div d, m % d, d, 7)

\* Newton's iteration for floor(sqrt(a * Scale)), from r >= the root:
\* r' = (r + a * Scale / r) / 2 until it stops decreasing.
RECURSIVE SqrtNewton(_, _)
SqrtNewton(a, r) ==
    LET nxt == (r + DivFix(a, r)) \div 2
    IN  IF nxt >= r THEN r ELSE SqrtNewton(a, nxt)

\* math.sqrt(a) for a >= 0: sqrt(a / Scale) * Scale = sqrt(a * Scale).
SqrtFix(a) == IF a = 0 THEN 0 ELSE SqrtNewton(a, Max(a, Scale))

\* round(a, nd) for nd in 1..3: nearest multiple of 10^-nd, ties to even.
RoundTo(a, nd) ==
    LET unit == Scale \div (10 ^ nd)
        m == Abs(a)
        q == m \div unit
        r == m % unit
        up == (2 * r > unit) \/ (2 * r = unit /\ q % 2 = 1)
    IN  Sgn(a) * (IF up THEN q + 1 ELSE q) * unit

\* math.ceil(a) as an integer.
CeilInt(a) == IF a % Scale = 0 THEN a \div Scale ELSE (a \div Scale) + 1

\* ------------------------------------------------------------------------
\* Sequences
\* ------------------------------------------------------------------------

RECURSIVE SumSeq(_)
SumSeq(s) == IF s = <<>> THEN 0 ELSE Head(s) + SumSeq(Tail(s))

\* sum((x - mean) ** 2 for x in values)
RECURSIVE SumSqDev(_, _)
SumSqDev(s, mean) ==
    IF s = <<>> THEN 0
    ELSE MulFix(Head(s) - mean, Head(s) - mean) + SumSqDev(Tail(s), mean)

RECURSIVE Insert(_, _)
Insert(x, s) ==
    IF s = <<>> THEN <<x>>
    ELSE IF x < Head(s) THEN <<x>> \o s
    ELSE <<Head(s)>> \o Insert(x, Tail(s))

\* sorted(values): ascending, stable.
RECURSIVE Sorted(_)
Sorted(s) ==
    IF s = <<>> THEN <<>>
    ELSE Insert(s[Len(s)], Sorted(SubSeq(s, 1, Len(s) - 1)))

\* ------------------------------------------------------------------------
\* Call outcomes: a returned value or a raised exception
\* ------------------------------------------------------------------------

EmptyDict == [k \in {} |-> 0]

Return(v) == [kind |-> "return", exc |-> "none", value |-> v]

Raise(e) == [kind |-> "raise", exc |-> e, value |-> EmptyDict]

\* ------------------------------------------------------------------------
\* scripts/analyze.py
\*
\* A function's locals are written as the parameters of a local operator
\* applied to their defining expressions, in the order the code assigns them.
\* ------------------------------------------------------------------------

\* The nested percentile(p) of analyze.py: linear interpolation at rank
\* idx = (p / 100) * (n - 1) of the sorted samples (n >= 1).
analyze_percentile(sorted_vals, p) ==
    LET n == Len(sorted_vals)
        idx == ((p * Scale) \div 100) * (n - 1)
        lower == idx \div Scale
        upper == Min(lower + 1, n - 1)
        weight == idx - lower * Scale
    IN  MulFix(sorted_vals[lower + 1], Scale - weight)
            + MulFix(sorted_vals[upper + 1], weight)

\* The record's cv is the percentage (sd / mean) * 100 rounded to one decimal,
\* kept in units of 10^-5 percent: round(ratio * 100, 1) = round(ratio, 3) * 100.
analyze_calculate_statistics(values) ==
    LET Rec(sorted_vals, n, mean, sd, p25, p75, se) ==
            IF mean = 0 THEN Raise("ZeroDivisionError")
            ELSE Return([
                n |-> n,
                mean |-> RoundTo(mean, 2),
                sd |-> RoundTo(sd, 2),
                min |-> RoundTo(sorted_vals[1], 2),
                max |-> RoundTo(sorted_vals[n], 2),
                p25 |-> RoundTo(p25, 2),
                p50 |-> RoundTo(analyze_percentile(sorted_vals, 50), 2),
                p75 |-> RoundTo(p75, 2),
                p90 |-> RoundTo(analyze_percentile(sorted_vals, 90), 2),
                p95 |-> RoundTo(analyze_percentile(sorted_vals, 95), 2),
                p99 |-> RoundTo(analyze_percentile(sorted_vals, 99), 2),
                iqr |-> RoundTo(p75 - p25, 2),
                cv |-> RoundTo(DivFix(sd, mean), 3),
                ci95_lower |-> RoundTo(mean - MulFix(19600000, se), 2),
                ci95_upper |-> RoundTo(mean + MulFix(19600000, se), 2)])
        WithSd(sorted_vals, n, mean, sd) ==
            Rec(sorted_vals, n, mean, sd,
                analyze_percentile(sorted_vals, 25),
                analyze_percentile(sorted_vals, 75),
                DivFix(sd, SqrtFix(n * Scale)))
        WithMean(sorted_vals, n, mean) ==
            IF n - 1 = 0 THEN Raise("ZeroDivisionError")
            ELSE WithSd(sorted_vals, n, mean,
                        SqrtFix(DivFix(SumSqDev(values, mean), (n - 1) * Scale)))
    IN  IF values = <<>> THEN Return(EmptyDict)
        ELSE WithMean(Sorted(values), Len(values),
                      DivFix(SumSeq(values), Len(values) * Scale))

analyze_welch_t_test(group1, group2) ==
    LET n1 == Len(group1)
        n2 == Len(group2)
        WithDf(t, num, dfden) ==
            IF dfden = 0 THEN Raise("ZeroDivisionError")
            ELSE Return([
                t |-> RoundTo(t, 2),
                df |-> RoundTo(DivFix(num, dfden), 2),
                p_value |-> IF Abs(t) > 35000000 THEN 10000 ELSE 500000])
        WithSe(mean1, mean2, v1n, v2n, se) ==
            IF se = 0 THEN Raise("ZeroDivisionError")
            ELSE WithDf(DivFix(mean1 - mean2, se),
                        MulFix(v1n + v2n, v1n + v2n),
                        DivFix(MulFix(v1n, v1n), (n1 - 1) * Scale)
                            + DivFix(MulFix(v2n, v2n), (n2 - 1) * Scale))
        WithVar(mean1, mean2, v1n, v2n) ==
            WithSe(mean1, mean2, v1n, v2n, SqrtFix(v1n + v2n))
        WithMeans(mean1, mean2) ==
            IF n1 - 1 = 0 \/ n2 - 1 = 0 THEN Raise("ZeroDivisionError")
            ELSE WithVar(mean1, mean2,
                    DivFix(DivFix(SumSqDev(group1, mean1), (n1 - 1) * Scale),
                           n1 * Scale),
                    DivFix(DivFix(SumSqDev(group2, mean2), (n2 - 1) * Scale),
                           n2 * Scale))
    IN  IF n1 = 0 \/ n2 = 0 THEN Raise("ZeroDivisionError")
        ELSE WithMeans(DivFix(SumSeq(group1), n1 * Scale),
                       DivFix(SumSeq(group2), n2 * Scale))

\* ------------------------------------------------------------------------
\* scripts/real-analysis.py
\* ------------------------------------------------------------------------

\* The nested percentile(p) of real-analysis.py: inclusive rank
\* ceil((p / 100) * n) - 1, clamped to 0..n-1, no interpolation.
real_percentile(sorted_values, p) ==
    LET n == Len(sorted_values)
        idx == CeilInt(((p * Scale) \div 100) * n) - 1
    IN  sorted_values[Max(0, Min(idx, n - 1)) + 1]

real_calculate_statistics(values) ==
    LET Rec(n, sorted_values, mean, sd, se) ==
            [mean |-> mean,
             sd |-> sd,
             min |-> sorted_values[1],
             max |-> sorted_values[n],
             p50 |-> real_percentile(sorted_values, 50),
             p95 |-> real_percentile(sorted_values, 95),
             p99 |-> real_percentile(sorted_values, 99),
             ci95 |-> <<mean - MulFix(19600000, se),
                        mean + MulFix(19600000, se)>>,
             n |-> n]
        WithSd(n, sorted_values, mean, sd) ==
            Rec(n, sorted_values, mean, sd,
                IF n > 0 THEN DivFix(sd, SqrtFix(n * Scale)) ELSE 0)
        WithMean(n, sorted_values, mean) ==
            WithSd(n, sorted_values, mean,
                   IF n > 1
                   THEN SqrtFix(DivFix(SumSqDev(values, mean), (n - 1) * Scale))
                   ELSE 0)
    IN  IF values = <<>>
        THEN [mean |-> 0, sd |-> 0, min |-> 0, max |-> 0, p50 |-> 0,
              p95 |-> 0, p99 |-> 0, ci95 |-> <<0, 0>>, n |-> 0]
        ELSE WithMean(Len(values), Sorted(values),
                      DivFix(SumSeq(values), Len(values) * Scale))

\* Taylor series of exp(-f) for 0 <= f < 1: sum of (-f)^i / i!, i = k..12,
\* with term = (-f)^k / k!.
RECURSIVE ExpSeries(_, _, _)
ExpSeries(f, term, k) ==
    IF k > 12 \/ term = 0 THEN 0
    ELSE term + ExpSeries(f, -(MulFix(term, f) \div (k + 1)), k + 1)

\* e^-k for an integer k >= 0, by repeated multiplication with e^-1.
RECURSIVE ExpNegInt(_)
ExpNegInt(k) == IF k = 0 THEN Scale ELSE MulFix(3678794, ExpNegInt(k - 1))

\* math.exp(-y) for y >= 0; below 10^-7 from y = 17 on.
ExpNeg(y) ==
    IF y >= 17 * Scale THEN 0
    ELSE MulFix(ExpNegInt(y \div Scale), ExpSeries(y % Scale, Scale, 0))

\* normal_cdf with the final branch taken on x >= 0 instead of x > 0.
normal_cdf_geq(x) ==
    LET ax == Min(Abs(x), 10 * Scale)
        P(t, d) ==
            MulFix(MulFix(d, t),
                   3193815 + MulFix(t, -3565638 + MulFix(t, 17814780
                       + MulFix(t, -18212560 + MulFix(t, 13302740)))))
        Result(p) == IF x >= 0 THEN Scale - p ELSE p
    IN  Result(P(DivFix(Scale, Scale + MulFix(2316419, ax)),
                 MulFix(3989423, ExpNeg(MulFix(ax, ax) \div 2))))

\* For |x| >= 10 the density d is below 10^-7, as at |x| = 10.
normal_cdf(x) ==
    LET ax == Min(Abs(x), 10 * Scale)
        P(t, d) ==
            MulFix(MulFix(d, t),
                   3193815 + MulFix(t, -3565638 + MulFix(t, 17814780
                       + MulFix(t, -18212560 + MulFix(t, 13302740)))))
        Result(p) == IF x > 0 THEN Scale - p ELSE p
    IN  Result(P(DivFix(Scale, Scale + MulFix(2316419, ax)),
                 MulFix(3989423, ExpNeg(MulFix(ax, ax) \div 2))))

real_welch_t_test(group1, group2) ==
    LET n1 == Len(group1)
        n2 == Len(group2)
        WithT(t, num, denom) ==
            Return([t |-> t,
                    p |-> 2 * (Scale - normal_cdf(Abs(t))),
                    df |-> IF denom > 0 THEN DivFix(num, denom)
                           ELSE (n1 + n2 - 2) * Scale])
        WithSe(stats1, stats2, v1n, v2n, se) ==
            IF se = 0
            THEN Return([t |-> 0, p |-> Scale, df |-> (n1 + n2 - 2) * Scale])
            ELSE IF n1 - 1 = 0 \/ n2 - 1 = 0 THEN Raise("ZeroDivisionError")
            ELSE WithT(DivFix(stats1.mean - stats2.mean, se),
                       MulFix(v1n + v2n, v1n + v2n),
                       DivFix(MulFix(v1n, v1n), (n1 - 1) * Scale)
                           + DivFix(MulFix(v2n, v2n), (n2 - 1) * Scale))
        WithVar(stats1, stats2, v1n, v2n) ==
            WithSe(stats1, stats2, v1n, v2n, SqrtFix(v1n + v2n))
        WithStats(stats1, stats2) ==
            IF n1 = 0 \/ n2 = 0 THEN Raise("ZeroDivisionError")
            ELSE WithVar(stats1, stats2,
                         DivFix(MulFix(stats1.sd, stats1.sd), n1 * Scale),
                         DivFix(MulFix(stats2.sd, stats2.sd), n2 * Scale))
    IN  WithStats(real_calculate_statistics(group1),
                  real_calculate_statistics(group2))

\* ranks[value]: the 1-based positions of value in the sorted combined list.
RanksOf(combined, value) == {i \in 1..Len(combined) : combined[i] = value}

RECURSIVE SumSet(_)
SumSet(S) ==
    IF S = {} THEN 0
    ELSE LET e == CHOOSE e \in S : TRUE IN e + SumSet(S \ {e})

\* avg_ranks without the tie average: a tied value keeps its first rank.
avg_ranks_first(combined, value) ==
    Scale * (CHOOSE i \in RanksOf(combined, value) :
                \A j \in RanksOf(combined, value) : i <= j)

\* avg_ranks[value] = sum(r) / len(r)
avg_ranks(combined, value) ==
    LET r == RanksOf(combined, value)
    IN  DivFix(SumSet(r) * Scale, Cardinality(r) * Scale)

\* R1 = sum(avg_ranks[v] for v in group1)
RECURSIVE RankSum(_, _)
RankSum(combined, group) ==
    IF group = <<>> THEN 0
    ELSE avg_ranks(combined, Head(group)) + RankSum(combined, Tail(group))

mann_whitney_u(group1, group2) ==
    LET n1 == Len(group1)
        n2 == Len(group2)
        mean_U == (n1 * n2 * Scale) \div 2
        WithZ(U1, U2, U, z) ==
            [U |-> U, p |-> 2 * (Scale - normal_cdf(Abs(z))), z |-> z,
             U1 |-> U1, U2 |-> U2]
        WithStd(U1, U2, U, std_U) ==
            WithZ(U1, U2, U,
                  IF std_U > 0 THEN DivFix(U - mean_U, std_U) ELSE 0)
        WithU(U1, U2) ==
            WithStd(U1, U2, Min(U1, U2),
                    SqrtFix((n1 * n2 * (n1 + n2 + 1) * Scale) \div 12))
        WithU1(U1) == WithU(U1, n1 * n2 * Scale - U1)
    IN  WithU1(RankSum(Sorted(group1 \o group2), group1)
                   - (n1 * (n1 + 1) * Scale) \div 2)

\* The interpretation taken on d instead of abs(d).
Interpretation_signed(d) ==
    IF d < 2000000 THEN "negligible"
    ELSE IF d < 5000000 THEN "small"
    ELSE IF d < 8000000 THEN "medium"
    ELSE "large"

\* |d| < 0.2 negligible, < 0.5 small, < 0.8 medium, else large.
Interpretation(d) ==
    LET abs_d == Abs(d)
    IN  IF abs_d < 2000000 THEN "negligible"
        ELSE IF abs_d < 5000000 THEN "small"
        ELSE IF abs_d < 8000000 THEN "medium"
        ELSE "large"

real_cohens_d(group1, group2) ==
    LET n1 == Len(group1)
        n2 == Len(group2)
        WithD(d) == Return([d |-> d, interpretation |-> Interpretation(d)])
        WithPooledSd(stats1, stats2, pooled_sd) ==
            IF pooled_sd = 0
            THEN Return([d |-> 0, interpretation |-> "undefined"])
            ELSE WithD(DivFix(stats1.mean - stats2.mean, pooled_sd))
        WithPooledVar(stats1, stats2, pooled_var) ==
            IF pooled_var < 0 THEN Raise("ValueError")
            ELSE WithPooledSd(stats1, stats2, SqrtFix(pooled_var))
        WithStats(stats1, stats2) ==
            IF n1 + n2 - 2 = 0 THEN Raise("ZeroDivisionError")
            ELSE WithPooledVar(stats1, stats2,
                     DivFix((n1 - 1) * MulFix(stats1.sd, stats1.sd)
                                + (n2 - 1) * MulFix(stats2.sd, stats2.sd),
                            (n1 + n2 - 2) * Scale))
    IN  WithStats(real_calculate_statistics(group1),
                  real_calculate_statistics(group2))

\* ------------------------------------------------------------------------
\* State: one call of a statistics function (pc, fn, g1, g2, x, res), and one
\* run of a script's main() (prog, nfiles, fi, si, lat, results, all_results,
\* saved).
\* ------------------------------------------------------------------------

VARIABLES pc, fn, g1, g2, x, res,
          prog, nfiles, fi, si, lat, results, all_results, saved

callVars == <<fn, g1, g2, x, res>>

mainVars == <<prog, nfiles, fi, si, lat, results, all_results, saved>>

vars == <<pc, fn, g1, g2, x, res,
          prog, nfiles, fi, si, lat, results, all_results, saved>>

MaxLen == 3

MaxStatLen == 4

MaxX == 16

MaxFiles == 2

\* All sequences over S of length 0..k.
SeqsUpTo(S, k) == UNION {[1..m -> S] : m \in 0..k}

\* Latency samples (ms) of the two compared groups.
Samples == {3 * Scale, 4 * Scale, 5 * Scale}

\* Latency samples (ms) of a single group: 0, 3.125, 4.0, 5.0.
StatSamples == {0, 31250000, 4 * Scale, 5 * Scale}

\* Arguments of normal_cdf: multiples of 0.25.
XGrid == {k * (Scale \div 4) : k \in (-MaxX)..MaxX}

Init ==
    /\ pc = "idle"
    /\ fn = "none"
    /\ g1 = <<>>
    /\ g2 = <<>>
    /\ x = 0
    /\ res = Return(EmptyDict)
    /\ prog = "none"
    /\ nfiles = 0
    /\ fi = 0
    /\ si = 0
    /\ lat = <<<<>>, <<>>>>
    /\ results = EmptyDict
    /\ all_results = <<>>
    /\ saved = FALSE

\* The effect of one call f(a, b), or f(arg): the outcome is kept in res.
Called(name, a, b, arg, outcome) ==
    /\ pc' = "done"
    /\ fn' = name
    /\ g1' = a
    /\ g2' = b
    /\ x' = arg
    /\ res' = outcome
    /\ UNCHANGED mainVars

Call_analyze_calculate_statistics ==
    /\ pc = "idle"
    /\ \E v \in SeqsUpTo(StatSamples, MaxStatLen) :
        Called("analyze.calculate_statistics", v, <<>>, 0,
               analyze_calculate_statistics(v))

Call_real_calculate_statistics ==
    /\ pc = "idle"
    /\ \E v \in SeqsUpTo(StatSamples, MaxStatLen) :
        Called("real.calculate_statistics", v, <<>>, 0,
               Return(real_calculate_statistics(v)))

Call_analyze_welch_t_test ==
    /\ pc = "idle"
    /\ \E a \in SeqsUpTo(Samples, MaxLen), b \in SeqsUpTo(Samples, MaxLen) :
        Called("analyze.welch_t_test", a, b, 0, analyze_welch_t_test(a, b))

Call_real_welch_t_test ==
    /\ pc = "idle"
    /\ \E a \in SeqsUpTo(Samples, MaxLen), b \in SeqsUpTo(Samples, MaxLen) :
        Called("real.welch_t_test", a, b, 0, real_welch_t_test(a, b))

Call_mann_whitney_u ==
    /\ pc = "idle"
    /\ \E a \in SeqsUpTo(Samples, MaxLen), b \in SeqsUpTo(Samples, MaxLen) :
        Called("real.mann_whitney_u", a, b, 0, Return(mann_whitney_u(a, b)))

Call_real_cohens_d ==
    /\ pc = "idle"
    /\ \E a \in SeqsUpTo(Samples, MaxLen), b \in SeqsUpTo(Samples, MaxLen) :
        Called("real.cohens_d", a, b, 0, real_cohens_d(a, b))

Call_normal_cdf ==
    /\ pc = "idle"
    /\ \E v \in XGrid :
        Called("real.normal_cdf", <<>>, <<>>, v, Return(normal_cdf(v)))

Next ==
    \/ Call_analyze_calculate_statistics
    \/ Call_real_calculate_statistics
    \/ Call_analyze_welch_t_test
    \/ Call_real_welch_t_test
    \/ Call_mann_whitney_u
    \/ Call_real_cohens_d
    \/ Call_normal_cdf

Spec == Init /\ [][Next]_vars

\* ------------------------------------------------------------------------
\* The scripts' main(): real-analysis.py analyses each existing input file
\* scenario by scenario and saves all results at the end; analyze.py prints
\* the statistics of each protocol of each scenario of each loaded file.
\* No loop catches an exception: a raise leaves main() (pc = "crashed").
\* ------------------------------------------------------------------------

\* scenarios = ['issue', 'present', 'selective-disclose']
scenarios == <<"issue", "present", "selective-disclose">>

No == [kind |-> "return", exc |-> "none", value |-> EmptyDict]

\* Latency lists a benchmark file holds for one protocol of one scenario:
\* none, a single sample, two samples, two samples of mean 0.
RunGroups == {<<>>, <<5 * Scale>>, <<3 * Scale, 4 * Scale>>, <<0, 0>>}

\* The names of the protocols with a non-empty latency list.
WithLatencies(a, b) ==
    (IF a # <<>> THEN {"didcomm"} ELSE {}) \cup
    (IF b # <<>> THEN {"openid4vc"} ELSE {})

\* One iteration of analyze_benchmark's scenario loop for a scenario the
\* file holds, with latencies a (didcomm) and b (openid4vc): the statistics
\* of each non-empty list and, when both are non-empty, the comparison.
real_scenario(a, b) ==
    LET Compared(t_result, d_result, mean2) ==
            IF t_result.kind = "raise" THEN t_result
            ELSE IF d_result.kind = "raise" THEN d_result
            ELSE IF mean2 = 0 THEN Raise("ZeroDivisionError")
            ELSE Return([protocols |-> WithLatencies(a, b),
                         comparison |-> "compared"])
    IN  IF a = <<>> \/ b = <<>>
        THEN Return([protocols |-> WithLatencies(a, b), comparison |-> "None"])
        ELSE Compared(real_welch_t_test(a, b), real_cohens_d(a, b),
                      real_calculate_statistics(b).mean)

\* One iteration of analyze.py's scenario loop: calculate_statistics of
\* each protocol's non-empty latency list, then the printed block.
analyze_scenario(a, b) ==
    LET Printed(s1, s2) ==
            IF s1.kind = "raise" THEN s1
            ELSE IF s2.kind = "raise" THEN s2
            ELSE Return([protocols |-> WithLatencies(a, b),
                         comparison |-> "None"])
    IN  Printed(IF a # <<>> THEN analyze_calculate_statistics(a) ELSE No,
                IF b # <<>> THEN analyze_calculate_statistics(b) ELSE No)

\* main() starts on the command line's input files.
Main_start ==
    /\ pc = "idle"
    /\ \E p \in {"real-analysis", "analyze"}, n \in 1..MaxFiles :
        /\ prog' = p
        /\ nfiles' = n
    /\ fi' = 1
    /\ pc' = "main"
    /\ UNCHANGED <<callVars, si, lat, results, all_results, saved>>

\* The file does not exist (real-analysis.py), or holds no "scenarios"
\* (analyze.py): the loop goes on to the next file.
Main_skip_file ==
    /\ pc = "main"
    /\ fi <= nfiles
    /\ fi' = fi + 1
    /\ UNCHANGED <<callVars, pc, prog, nfiles, si, lat, results, all_results,
                   saved>>

\* analyze_benchmark(input_file) begins: results['scenarios'] = {}.
Main_open_file ==
    /\ pc = "main"
    /\ fi <= nfiles
    /\ pc' = "scenarios"
    /\ si' = 1
    /\ results' = EmptyDict
    /\ UNCHANGED <<callVars, prog, nfiles, fi, lat, all_results, saved>>

\* The file does not hold the scenario: continue.
Scenario_absent ==
    /\ pc = "scenarios"
    /\ si <= Len(scenarios)
    /\ si' = si + 1
    /\ UNCHANGED <<callVars, pc, prog, nfiles, fi, lat, results, all_results,
                   saved>>

\* The scenario is analysed; an exception leaves the loops and main().
Scenario_analysed ==
    /\ pc = "scenarios"
    /\ si <= Len(scenarios)
    /\ \E a \in RunGroups, b \in RunGroups :
        LET Step(outcome) ==
                IF outcome.kind = "raise"
                THEN /\ pc' = "crashed"
                     /\ UNCHANGED <<si, results>>
                ELSE /\ pc' = pc
                     /\ si' = si + 1
                     /\ results' =
                            [k \in DOMAIN results \cup {scenarios[si]} |->
                                IF k = scenarios[si] THEN outcome.value
                                ELSE results[k]]
        IN  /\ lat' = <<a, b>>
            /\ Step(IF prog = "real-analysis" THEN real_scenario(a, b)
                    ELSE analyze_scenario(a, b))
    /\ UNCHANGED <<callVars, prog, nfiles, fi, all_results, saved>>

\* The scenario loop ends: all_results.append(results), next file.  Of each
\* appended result all_results keeps the scenarios it holds.  The following
\* generate_latex_table(results) only prints, and changes no state.
File_done ==
    /\ pc = "scenarios"
    /\ si > Len(scenarios)
    /\ all_results' = Append(all_results, DOMAIN results)
    /\ fi' = fi + 1
    /\ pc' = "main"
    /\ UNCHANGED <<callVars, prog, nfiles, si, lat, results, saved>>

\* The file loop ends: real-analysis.py saves all_results when not empty.
Main_done ==
    /\ pc = "main"
    /\ fi > nfiles
    /\ saved' = (prog = "real-analysis" /\ all_results # <<>>)
    /\ pc' = "complete"
    /\ UNCHANGED <<callVars, prog, nfiles, fi, si, lat, results, all_results>>

NextMain ==
    \/ Main_start
    \/ Main_skip_file
    \/ Main_open_file
    \/ Scenario_absent
    \/ Scenario_analysed
    \/ File_done
    \/ Main_done

SpecMain == Init /\ [][NextMain]_vars

\* ------------------------------------------------------------------------
\* Properties
\* ------------------------------------------------------------------------

AllEqual(s) == \A i \in 1..Len(s) : s[i] = s[1]

CalledFn(name) == pc = "done" /\ fn = name

CalledOneOf(names) == pc = "done" /\ fn \in names

\* C1: for every non-empty sample sequence analyze.py's calculate_statistics
\* returns a record with min <= p25 <= p50 <= p75 <= max.
C1_PercentilesOrdered ==
    (CalledFn("analyze.calculate_statistics") /\ g1 # <<>>) =>
        /\ res.kind = "return"
        /\ res.value.min <= res.value.p25
        /\ res.value.p25 <= res.value.p50
        /\ res.value.p50 <= res.value.p75
        /\ res.value.p75 <= res.value.max

\* C2: when a group has fewer than 2 samples welch_t_test fails and returns
\* no result record.
C2_WelchRejectsSmallGroups ==
    (CalledOneOf({"analyze.welch_t_test", "real.welch_t_test"})
        /\ (Len(g1) < 2 \/ Len(g2) < 2)) =>
        res.kind = "raise"

\* C3: for two groups of at least 2 samples whose pooled standard error is 0
\* (both groups constant) welch_t_test returns t = 0 and p = 1.0 and does
\* not raise.
C3_WelchDegenerate ==
    (CalledOneOf({"analyze.welch_t_test", "real.welch_t_test"})
        /\ Len(g1) >= 2 /\ Len(g2) >= 2 /\ AllEqual(g1) /\ AllEqual(g2)) =>
        /\ res.kind = "return"
        /\ res.value.t = 0
        /\ res.value.p = Scale

\* C4: for non-empty groups mann_whitney_u has U1 + U2 = n1 * n2 before the
\* minimum is taken (U2 being the U1 of the swapped call), and U, z and p do
\* not change when the two groups are swapped.
C4_MannWhitneySymmetric ==
    (CalledFn("real.mann_whitney_u") /\ g1 # <<>> /\ g2 # <<>>) =>
        /\ res.value.U1 + res.value.U2 = Len(g1) * Len(g2) * Scale
        /\ mann_whitney_u(g2, g1).U1 = res.value.U2
        /\ mann_whitney_u(g2, g1).U = res.value.U
        /\ mann_whitney_u(g2, g1).z = res.value.z
        /\ mann_whitney_u(g2, g1).p = res.value.p

\* C4 witness: groups that share a value (a tie across the groups) and whose
\* U1 and U2 differ.
C4_Witness ==
    /\ CalledFn("real.mann_whitney_u")
    /\ \E i \in 1..Len(g1), j \in 1..Len(g2) : g1[i] = g2[j]
    /\ res.value.U1 > res.value.U2
    /\ res.value.U = res.value.U2

\* C5: a failure in one scenario never ends the run: no exception leaves
\* main().
C5_FailureIsolated == pc # "crashed"

\* C6: for n >= 1 identical values v calculate_statistics returns mean = v,
\* sd = 0, min = max = v, every percentile v and the confidence interval
\* [v, v] (analyze.py reports v to two decimals).
C6_IdenticalValues ==
    (CalledOneOf({"analyze.calculate_statistics", "real.calculate_statistics"})
        /\ g1 # <<>> /\ AllEqual(g1)) =>
        /\ res.kind = "return"
        /\ IF fn = "real.calculate_statistics"
           THEN /\ \A k \in {"mean", "min", "max", "p50", "p95", "p99"} :
                      res.value[k] = g1[1]
                /\ res.value.sd = 0
                /\ res.value.ci95 = <<g1[1], g1[1]>>
           ELSE /\ \A k \in {"mean", "min", "max", "p25", "p50", "p75", "p90",
                             "p95", "p99", "ci95_lower", "ci95_upper"} :
                      res.value[k] = RoundTo(g1[1], 2)
                /\ res.value.sd = 0

\* C7: on an empty sequence calculate_statistics returns a record with n = 0
\* and every numeric field 0.
C7_EmptyInput ==
    (CalledOneOf({"analyze.calculate_statistics", "real.calculate_statistics"})
        /\ g1 = <<>>) =>
        /\ res.kind = "return"
        /\ "n" \in DOMAIN res.value
        /\ \A k \in DOMAIN res.value \ {"ci95"} : res.value[k] = 0
        /\ "ci95" \in DOMAIN res.value => res.value.ci95 = <<0, 0>>

\* C8: when a group has fewer than 2 samples cohens_d surfaces a failure and
\* returns no effect size.
C8_CohensDRejectsSmallGroups ==
    (CalledFn("real.cohens_d") /\ (Len(g1) < 2 \/ Len(g2) < 2)) =>
        res.kind = "raise"

\* C9 as claimed: normal_cdf(-x) = 1 - normal_cdf(x) for every x, x = 0
\* included, and normal_cdf(0) = 0.5.
C9_NormalCdfSymmetricAtZero ==
    CalledFn("real.normal_cdf") =>
        /\ normal_cdf(-x) = Scale - res.value
        /\ x = 0 => res.value = Scale \div 2

\* C9 as amended: normal_cdf(-x) = 1 - normal_cdf(x) for every x # 0; at 0
\* the value is 0.3989423 times the sum 1.2533137 of the five coefficients,
\* which is below 0.5 by less than 10^-6, so that normal_cdf(x) +
\* normal_cdf(-x) is within 10^-6 of 1 for every x.
C9_NormalCdfSymmetric ==
    CalledFn("real.normal_cdf") =>
        /\ x # 0 => normal_cdf(-x) = Scale - res.value
        /\ x = 0 => /\ res.value = MulFix(3989423, 3193815 - 3565638
                                       + 17814780 - 18212560 + 13302740)
                    /\ res.value < Scale \div 2
        /\ Abs(res.value + normal_cdf(-x) - Scale) < 10

\* C9 witness: a negative argument, whose value is the tail p itself.
C9_Witness ==
    /\ CalledFn("real.normal_cdf")
    /\ x = -2 * Scale
    /\ res.value > 0
    /\ res.value < Scale \div 2

\* C10: when cohens_d returns for (A, B) it returns for (B, A) with d negated
\* and the same interpretation, which is 'undefined' with d = 0 when the
\* pooled SD is 0 (both groups constant) and otherwise negligible, small,
\* medium or large for |d| < 0.2, < 0.5, < 0.8, >= 0.8.
C10_CohensDAntisymmetric ==
    (CalledFn("real.cohens_d") /\ res.kind = "return") =>
        /\ real_cohens_d(g2, g1).kind = "return"
        /\ real_cohens_d(g2, g1).value.d = -res.value.d
        /\ real_cohens_d(g2, g1).value.interpretation
               = res.value.interpretation
        /\ IF AllEqual(g1) /\ AllEqual(g2)
           THEN res.value.d = 0 /\ res.value.interpretation = "undefined"
           ELSE res.value.interpretation =
                    CASE Abs(res.value.d) < 2000000 -> "negligible"
                      [] Abs(res.value.d) >= 2000000
                             /\ Abs(res.value.d) < 5000000 -> "small"
                      [] Abs(res.value.d) >= 5000000
                             /\ Abs(res.value.d) < 8000000 -> "medium"
                      [] OTHER -> "large"

\* C10 witness: a negative d of medium size, between groups of 2 or more.
C10_Witness ==
    /\ CalledFn("real.cohens_d")
    /\ res.kind = "return"
    /\ Len(g1) >= 2
    /\ Len(g2) >= 2
    /\ res.value.d < 0
    /\ res.value.interpretation = "medium"
=============================================================================
